---- MODULE Spec2Model ----
(***************************************************************************)
(* Model of the webhook pipeline of sol-twitter-bot (src/src/routes.ts,    *)
(* src/src/utils/pump.ts): signature middleware, text normalisation,       *)
(* sliding-window address scan, address validation and block list, the     *)
(* concurrent metadata lookups raced with Promise.any, and the dispatch of *)
(* one swap transaction.                                                   *)
(*                                                                         *)
(* A string is a sequence of characters; a character is a one-character    *)
(* string, or "U+XXXX" for a character outside ASCII.                      *)
(***************************************************************************)
EXTENDS Integers, Sequences, FiniteSets, TLC

VARIABLES
    SECRET,             \* the signing secret: "" when none is configured
    req,                \* the inbound request
    pc,                 \* where the request is in the middleware / handler
    combinedText,       \* routes.ts:258,267
    matches,            \* routes.ts:277
    validAddresses,     \* routes.ts:289
    tokenInfoPromises,  \* routes.ts:298, one promise per valid address
    anyPromise,         \* the promise Promise.any returns, routes.ts:317
    settleOrder,        \* indices of tokenInfoPromises in the order they settled
    swapRequests,       \* bodies posted by getPumpTx, pump.ts:12-25
    calls,              \* how many times each external step was started
    thrownBy,           \* the step whose exception reached the outer catch, or "none"
    imageError,         \* whether the image try block caught an exception
    response,           \* what res.send / res.sendStatus answered, or NoResponse
    normInput,          \* argument of normalizeText
    normOnce,           \* normalizeText(normInput)
    normTwice           \* normalizeText(normalizeText(normInput))

vars == <<SECRET, req, pc, combinedText, matches, validAddresses,
          tokenInfoPromises, anyPromise, settleOrder, swapRequests, calls,
          thrownBy, imageError, response, normInput, normOnce, normTwice>>

(***************************************************************************)
(* Characters                                                              *)
(***************************************************************************)

\* The character class of SOLANA_ADDRESS_REGEX, in Base58 digit order.
Base58Alphabet ==
    <<"1","2","3","4","5","6","7","8","9","A","B","C","D","E","F","G","H",
      "J","K","L","M","N","P","Q","R","S","T","U","V","W","X","Y","Z","a",
      "b","c","d","e","f","g","h","i","j","k","m","n","o","p","q","r","s",
      "t","u","v","w","x","y","z">>

Base58Digit(c) == (CHOOSE i \in 1..Len(Base58Alphabet) : Base58Alphabet[i] = c) - 1

UpperCase ==
    <<"A","B","C","D","E","F","G","H","I","J","K","L","M","N","O","P","Q",
      "R","S","T","U","V","W","X","Y","Z">>

LowerCase ==
    <<"a","b","c","d","e","f","g","h","i","j","k","l","m","n","o","p","q",
      "r","s","t","u","v","w","x","y","z">>

\* String.prototype.toLowerCase on the characters of the model: the ASCII
\* letters, and the Cyrillic / Greek capitals of the homoglyph table never
\* reach it (normalizeText replaced them).
toLowerCase(s) ==
    [k \in 1..Len(s) |->
        IF \E i \in 1..Len(UpperCase) : UpperCase[i] = s[k]
        THEN LowerCase[CHOOSE i \in 1..Len(UpperCase) : UpperCase[i] = s[k]]
        ELSE s[k]]

\* /\s+/g of routes.ts:239
Whitespace == {" ", "\t", "\n"}

stripWhitespace(s) == SelectSeq(s, LAMBDA c : c \notin Whitespace)

\* String.prototype.includes
includes(s, sub) ==
    \E i \in 1..(Len(s) - Len(sub) + 1) : SubSeq(s, i, i + Len(sub) - 1) = sub

(***************************************************************************)
(* Text normalisation, routes.ts:133-169                                   *)
(***************************************************************************)

\* homoglyphMap: the characters it maps, and what each maps to.
homoglyphKeys ==
    <<"U+0410","U+0412","U+0421","U+0415","U+041D","U+0406","U+0408",
      "U+041A","U+041C","U+041E","U+0420","U+0405","U+0422","U+03A5",
      "U+03A7","U+0396","U+0430","U+0435","U+043E","U+0440","U+0441",
      "U+0443","U+0445">>

homoglyphValues ==
    <<"A","B","C","E","H","I","J","K","M","O","P","S","T","Y","X","Z",
      "a","e","o","p","c","y","x">>

\* homoglyphMap[char] || char
homoglyphMap(char) ==
    IF \E i \in 1..Len(homoglyphKeys) : homoglyphKeys[i] = char
    THEN homoglyphValues[CHOOSE i \in 1..Len(homoglyphKeys) : homoglyphKeys[i] = char]
    ELSE char

\* Unicode data of the characters of the model that NFKC changes.
\* U+030A COMBINING RING ABOVE is the one combining mark (with a single
\* mark there is no canonical reordering); U+00C5 = A + U+030A (canonical
\* decomposition), U+FF21 FULLWIDTH A = A (compatibility decomposition).
\* No composite of Cyrillic U+0410 with U+030A exists.
CombiningMarks == {"U+030A"}

nfkcDecompose(c) ==
    CASE c = "U+00C5" -> <<"A", "U+030A">>
      [] c = "U+FF21" -> <<"A">>
      [] OTHER -> <<c>>

\* The primary composite of a starter and a mark, or "" when there is none.
nfkcComposite(starter, mark) ==
    CASE starter = "A" /\ mark = "U+030A" -> "U+00C5"
      [] OTHER -> ""

\* Every character replaced by its full decomposition.
RECURSIVE nfkcDecomposeAll(_)
nfkcDecomposeAll(s) ==
    IF s = <<>> THEN <<>>
    ELSE IF Len(s) = 1 THEN nfkcDecompose(s[1])
    ELSE LET half == Len(s) \div 2
         IN  nfkcDecomposeAll(SubSeq(s, 1, half))
                 \o nfkcDecomposeAll(SubSeq(s, half + 1, Len(s)))

\* Canonical composition of a decomposed string d: a mark combines with
\* the starter directly before it when the two have a composite (a mark
\* after another mark, or after a composite, has none).
nfkcCombines(d, k) ==
    /\ k > 1
    /\ k <= Len(d)
    /\ d[k] \in CombiningMarks
    /\ nfkcComposite(d[k - 1], d[k]) # ""

nfkcCompose(d) ==
    SelectSeq([k \in 1..Len(d) |->
                  IF nfkcCombines(d, k) THEN ""
                  ELSE IF nfkcCombines(d, k + 1) THEN nfkcComposite(d[k], d[k + 1])
                  ELSE d[k]],
              LAMBDA c : c # "")

\* String.prototype.normalize("NFKC")
normalizeNFKC(s) == nfkcCompose(nfkcDecomposeAll(s))

normalizeText(text) ==
    LET nfkc == normalizeNFKC(text)
    IN  [k \in 1..Len(nfkc) |-> homoglyphMap(nfkc[k])]

(***************************************************************************)
(* Candidate scan, routes.ts:88 and 277-285                                *)
(***************************************************************************)

\* The quantifier {32,44} of SOLANA_ADDRESS_REGEX.
MinAddressLen == 32

MaxAddressLen == 44

\* combinedText.slice(i, i + 45)
WindowLen == 45

Base58Chars == {Base58Alphabet[i] : i \in 1..Len(Base58Alphabet)}

\* How many characters of the class follow from position p of word.
runLength(word, p) ==
    LET stops == {q \in p..(Len(word) + 1) :
                     q = Len(word) + 1 \/ word[q] \notin Base58Chars}
    IN  (CHOOSE q \in stops : \A r \in stops : q <= r) - p

\* word.match(SOLANA_ADDRESS_REGEX): null (<<>>) or the matches; only the
\* first one, match[0], is used.  The regex engine takes the leftmost start
\* from which at least 32 characters of the class follow, and from there as
\* many as it can, up to 44.
firstMatch(word) ==
    LET starts == {p \in 1..(Len(word) - MinAddressLen + 1) :
                      runLength(word, p) >= MinAddressLen}
    IN  IF starts = {} THEN <<>>
        ELSE LET p == CHOOSE q \in starts : \A r \in starts : q <= r
                 run == runLength(word, p)
             IN  SubSeq(word, p,
                        p + (IF run > MaxAddressLen THEN MaxAddressLen ELSE run) - 1)

\* combinedText.slice(i, i + 45), i counted from 0
window(text, i) ==
    SubSeq(text, i + 1, IF i + WindowLen > Len(text) THEN Len(text) ELSE i + WindowLen)

\* The loop of routes.ts:279-285: one window per start offset, in order;
\* the windows without a match push nothing.
scanMatches(text) ==
    SelectSeq([i \in 1..Len(text) |-> firstMatch(window(text, i - 1))],
              LAMBDA match : match # <<>>)

(***************************************************************************)
(* Address validation, routes.ts:118-126, and the block list, 24-28        *)
(*                                                                         *)
(* new PublicKey(address) decodes Base58 and throws unless the result is   *)
(* 32 bytes; toBase58() encodes the bytes again.  A decoded value is a     *)
(* number of leading zero bytes and a magnitude, kept as 24-bit limbs,     *)
(* least significant first.                                                *)
(***************************************************************************)

LimbBase == 2 ^ 24

LimbCount == 264 \div 24

ZeroLimbs == [k \in 1..LimbCount |-> 0]

\* limbs * 58 + carry, from limb i upward
RECURSIVE mulAdd58(_, _, _)
mulAdd58(limbs, i, carry) ==
    IF i > Len(limbs) THEN <<>>
    ELSE LET v == limbs[i] * 58 + carry
         IN  <<v % LimbBase>> \o mulAdd58(limbs, i + 1, v \div LimbBase)

\* The magnitude of the digits of s from the k-th on, added to acc; the
\* limbs hold every string of up to 45 digits.
RECURSIVE base58Value(_, _, _)
base58Value(s, k, acc) ==
    IF k > Len(s) \/ acc[LimbCount] >= LimbBase THEN acc
    ELSE base58Value(s, k + 1, mulAdd58(acc, 1, Base58Digit(s[k])))

\* How many "1" digits s starts with: each is a zero byte.
leadingOnes(s) ==
    LET stops == {q \in 1..(Len(s) + 1) : q = Len(s) + 1 \/ s[q] # "1"}
    IN  (CHOOSE q \in stops : \A r \in stops : q <= r) - 1

\* Number of bytes of the magnitude (0 for zero).
RECURSIVE byteLength(_, _)
byteLength(limbs, i) ==
    IF i = 0 THEN 0
    ELSE IF limbs[i] = 0 THEN byteLength(limbs, i - 1)
    ELSE 3 * (i - 1) + (IF limbs[i] < 256 THEN 1 ELSE IF limbs[i] < 65536 THEN 2 ELSE 3)

\* bs58.decode: "throws" on a character outside the alphabet.
bs58Decode(s) ==
    IF \E k \in 1..Len(s) : s[k] \notin Base58Chars
    THEN [ok |-> FALSE, zeros |-> 0, value |-> ZeroLimbs]
    ELSE [ok |-> TRUE, zeros |-> leadingOnes(s),
          value |-> base58Value(s, 1, ZeroLimbs)]

decodedLength(d) == d.zeros + byteLength(d.value, LimbCount)

\* limbs \div 58 and limbs % 58, from limb i downward
RECURSIVE divMod58(_, _, _)
divMod58(limbs, i, rem) ==
    IF i = 0 THEN [q |-> <<>>, r |-> rem]
    ELSE LET v == rem * LimbBase + limbs[i]
             lower == divMod58(limbs, i - 1, v % 58)
         IN  [q |-> Append(lower.q, v \div 58), r |-> lower.r]

RECURSIVE base58Digits(_)
base58Digits(limbs) ==
    IF limbs = ZeroLimbs THEN <<>>
    ELSE LET d == divMod58(limbs, LimbCount, 0)
         IN  Append(base58Digits(d.q), Base58Alphabet[d.r + 1])

\* bs58.encode of the 32 bytes of a PublicKey: a "1" per leading zero byte,
\* then the digits of the magnitude.
toBase58(d) ==
    [k \in 1..(32 - byteLength(d.value, LimbCount)) |-> "1"] \o base58Digits(d.value)

isValidSolanaAddress(address) ==
    LET d == bs58Decode(address)
    IN  /\ d.ok
        /\ decodedLength(d) = 32
        /\ toBase58(d) = address

Blocked1 ==
    <<"4","C","n","k","9","E","P","n","W","5","i","x","f","L","Z","a","t",
      "C","P","J","j","D","B","1","P","U","t","c","R","p","V","V","g","T",
      "Q","u","k","m","9","e","p","u","m","p">>

Blocked2 ==
    <<"F","U","A","f","B","o","2","j","g","k","s","6","g","B","4","Z","4",
      "L","f","Z","k","q","S","Z","g","z","N","u","c","i","s","E","H","q",
      "n","N","e","b","a","R","x","M","1","P">>

BLOCKED_TOKENS == {toLowerCase(Blocked1), toLowerCase(Blocked2)}

\* The filter with the block list compared without toLowerCase.
isAllowedAddress_caseSensitive(address) ==
    /\ isValidSolanaAddress(address)
    /\ address \notin BLOCKED_TOKENS

\* The predicate of matches.filter, routes.ts:290-292.
isAllowedAddress(address) ==
    /\ isValidSolanaAddress(address)
    /\ toLowerCase(address) \notin BLOCKED_TOKENS

filterValid(ms) == SelectSeq(ms, isAllowedAddress)

(***************************************************************************)
(* Requests and the answers of the external services                       *)
(***************************************************************************)

\* An unblocked 44-character mint, the 43-character wrapped-SOL mint and the
\* 32-character system program id.
MintA ==
    <<"6","p","6","x","g","H","y","F","7","A","e","E","6","T","Z","k","S",
      "m","F","s","k","o","4","4","4","w","q","o","P","1","5","i","c","U",
      "S","q","i","2","j","f","G","i","P","N">>

WrappedSol ==
    <<"S","o","1","1","1","1","1","1","1","1","1","1","1","1","1","1","1",
      "1","1","1","1","1","1","1","1","1","1","1","1","1","1","1","1","1",
      "1","1","1","1","1","1","1","1","2">>

SystemProgram == [k \in 1..32 |-> "1"]

\* MintA written with Cyrillic look-alikes of A, E, H, T, P and o.
MintAHomoglyph ==
    <<"6","p","6","x","g","U+041D","y","F","7","U+0410","e","U+0415","6","U+0422","Z","k","S",
      "m","F","s","k","U+043E","4","4","4","w","q","U+043E","U+0420","1","5","i","c","U",
      "S","q","i","2","j","f","G","i","U+0420","N">>

\* Blocked2 with its first letter in lower case: on the block list by its
\* lower-case form, and 33 bytes when decoded.
Blocked2Variant == <<"f">> \o Tail(Blocked2)

\* Forty Base58 characters that decode to fewer than 32 bytes.
Noise == [k \in 1..40 |-> "z"]

\* SystemProgram as the tweet-catcher may deliver it in data.text, broken
\* by white space.
SystemProgramSplit ==
    SubSeq(SystemProgram, 1, 16) \o <<" ", "\n">> \o SubSeq(SystemProgram, 17, 32)

\* req.body.data: full_text and text; <<>> is the absent field ("" after
\* || "").
Payloads ==
    { [full_text |-> <<>>, text |-> <<>>],
      [full_text |-> <<"g", "m">>, text |-> <<>>],
      [full_text |-> Noise, text |-> <<"g", " ", "m">>],
      [full_text |-> Blocked2Variant, text |-> <<>>],
      [full_text |-> MintAHomoglyph, text |-> <<>>],
      [full_text |-> <<>>, text |-> SystemProgramSplit] }

\* req.body.data.image: undefined (NoImage) or a URL
NoImage == ""

Images == {NoImage, "https://pbs.twimg.com/media/1.jpg"}

\* What Tesseract may recognise in the image.
ImageTexts == { <<>>, Blocked1 }

\* req.body.task.user
Users == {"DaniilP86141", "someone"}

Secrets == {"", "hookdeck-signing-secret"}

Requests ==
    { [user |-> u, text |-> p.text, full_text |-> p.full_text, image |-> im,
       validSignature |-> v] :
          u \in Users, p \in Payloads, im \in Images, v \in BOOLEAN }

\* What token.getMintInfo() may resolve with; it may also throw.
MintInfos == [decimals : {0, 6}, supply : {"1000000000"}, isInitialized : BOOLEAN]

MintOutcomes == [ok : {TRUE}, info : MintInfos]
                    \cup {[ok |-> FALSE, info |-> CHOOSE m \in MintInfos : TRUE]}

(***************************************************************************)
(* Token information, routes.ts:187-226, and the swap request, pump.ts     *)
(***************************************************************************)

Null == [null |-> TRUE]

\* getTokenInfo once token.getMintInfo() has answered with outcome.
getTokenInfo(address, outcome) ==
    IF ~outcome.ok THEN Null                        \* catch: return null
    ELSE IF outcome.info.decimals = 0 THEN Null     \* !supply.decimals
    ELSE [address |-> address,
          decimals |-> outcome.info.decimals,
          supply |-> outcome.info.supply,
          isInitialized |-> outcome.info.isInitialized]

Pump == <<"p", "u", "m", "p">>

getAmount(address, user) ==
    IF user = "DaniilP86141"
    THEN (IF includes(address, Pump) THEN 10000000 ELSE 100000)
    ELSE (IF includes(address, Pump) THEN 500000000 ELSE 1000000000)

\* routes.ts:250-255
priorityLevelOf(user) == IF user = "DaniilP86141" THEN "medium" ELSE "veryHigh"

\* The body getPumpTx posts, pump.ts:12-19.
pumpRequestBody(address, amount, priorityLevel) ==
    [type |-> "BUY", mint |-> address, inAmount |-> amount,
     priorityFeeLevel |-> IF priorityLevel = "veryHigh" THEN "extreme" ELSE priorityLevel,
     slippageBps |-> "5000"]

(***************************************************************************)
(* Responses, routes.ts:75, 360-363, 370-374, 377-381                      *)
(***************************************************************************)

NoResponse == [code |-> 0, body |-> [none |-> TRUE]]

Unauthorized == [code |-> 401, body |-> [text |-> "Unauthorized"]]

NoValidAddresses ==
    [code |-> 200,
     body |-> [status |-> "success", message |-> "No valid token addresses found"]]

Processed(imageUrl) ==
    [code |-> 200,
     body |-> [status |-> "success",
               message |-> "Successfully processed webhook for Solana addresses",
               source |-> IF imageUrl # NoImage THEN "text and image" ELSE "text only"]]

ErrorResponse(errorMessage) ==
    [code |-> 500,
     body |-> [status |-> "error", message |-> "Error processing webhook",
               error |-> errorMessage]]

(***************************************************************************)
(* The request: middleware and handler, one action per await               *)
(***************************************************************************)

Steps == {"downloadImage", "extractTextFromImage", "getPumpTx", "sign",
          "getLatestBlockhash", "sendRawTransaction", "confirmTransaction"}

Pending == [state |-> "pending", value |-> Null]

pipelineIdle ==
    /\ combinedText = <<>>
    /\ matches = <<>>
    /\ validAddresses = <<>>
    /\ tokenInfoPromises = <<>>
    /\ anyPromise = Pending
    /\ settleOrder = <<>>
    /\ swapRequests = <<>>
    /\ calls = [st \in Steps |-> 0]
    /\ thrownBy = "none"
    /\ imageError = FALSE
    /\ response = NoResponse

normIdle == normInput = <<>> /\ normOnce = <<>> /\ normTwice = <<>>

normVars == <<normInput, normOnce, normTwice>>

Init ==
    /\ SECRET \in Secrets
    /\ req \in Requests
    /\ pc = "verify"
    /\ pipelineIdle
    /\ normIdle

\* The middleware calling next() after it answered 401.
verifyHookdeckSignature_nextAfterReject ==
    /\ pc = "verify"
    /\ pc' = "handler"
    /\ response' = IF SECRET # "" /\ ~req.validSignature THEN Unauthorized ELSE response
    /\ UNCHANGED <<SECRET, req, combinedText, matches, validAddresses,
                   tokenInfoPromises, anyPromise, settleOrder, swapRequests,
                   calls, thrownBy, imageError, normVars>>

\* routes.ts:43-80.  verifyWebhookSignature answers req.validSignature.
verifyHookdeckSignature ==
    /\ pc = "verify"
    /\ IF SECRET = ""
       THEN pc' = "handler" /\ UNCHANGED response                \* return next()
       ELSE IF ~req.validSignature
            THEN pc' = "done" /\ response' = Unauthorized        \* res.sendStatus(401)
            ELSE pc' = "handler" /\ UNCHANGED response           \* next()
    /\ UNCHANGED <<SECRET, req, combinedText, matches, validAddresses,
                   tokenInfoPromises, anyPromise, settleOrder, swapRequests,
                   calls, thrownBy, imageError, normVars>>

\* The outer catch, routes.ts:375-382.
catch(step, errorMessage) ==
    /\ thrownBy' = step
    /\ response' = ErrorResponse(errorMessage)
    /\ pc' = "done"

\* routes.ts:274-319 and 359-374: from the scan to the await of Promise.any,
\* or to the response when there is nothing to look up.  Every promise of
\* tokenInfoPromises has called getTokenInfo and waits for getMintInfo.
scanAndResolve(text) ==
    /\ combinedText' = text
    /\ matches' = scanMatches(text)
    /\ validAddresses' = filterValid(matches')
    /\ IF matches' = <<>>
       THEN /\ response' = Processed(req.image)
            /\ pc' = "done"
            /\ UNCHANGED tokenInfoPromises
       ELSE IF validAddresses' = <<>>
            THEN /\ response' = NoValidAddresses
                 /\ pc' = "done"
                 /\ UNCHANGED tokenInfoPromises
            ELSE /\ tokenInfoPromises' = [i \in 1..Len(validAddresses') |-> Pending]
                 /\ pc' = "Promise.any"
                 /\ UNCHANGED response

\* routes.ts:236-264: up to the await of downloadImage, or through the scan
\* when the request has no image.
handlerStart ==
    /\ pc = "handler"
    /\ LET text == stripWhitespace(req.text)
           fulltext == req.full_text
           combined == normalizeText(fulltext \o <<" ">> \o text)
       IN  IF req.image # NoImage
           THEN /\ combinedText' = combined
                /\ calls' = [calls EXCEPT !["downloadImage"] = @ + 1]
                /\ pc' = "downloadImage"
                /\ UNCHANGED <<matches, validAddresses, tokenInfoPromises, response>>
           ELSE /\ scanAndResolve(combined)
                /\ UNCHANGED calls
    /\ UNCHANGED <<SECRET, req, anyPromise, settleOrder, swapRequests, thrownBy,
                   imageError, normVars>>

\* The image block without its own catch: the exception reaches the outer one.
imageCatch_rethrow ==
    /\ imageError' = TRUE
    /\ thrownBy' = "extractTextFromImage"
    /\ response' = ErrorResponse("image processing failed")
    /\ pc' = "done"
    /\ UNCHANGED <<combinedText, matches, validAddresses, tokenInfoPromises, calls>>

\* The catch of the image block, routes.ts:269-271: log, and go on with the
\* text gathered so far.
imageCatch ==
    /\ imageError' = TRUE
    /\ scanAndResolve(combinedText)
    /\ UNCHANGED <<thrownBy, calls>>

\* routes.ts:264-265: downloadImage has settled.
downloadImageSettles ==
    /\ pc = "downloadImage"
    /\ \E ok \in BOOLEAN :
          IF ok
          THEN /\ calls' = [calls EXCEPT !["extractTextFromImage"] = @ + 1]
               /\ pc' = "extractTextFromImage"
               /\ UNCHANGED <<combinedText, matches, validAddresses,
                              tokenInfoPromises, response, imageError, thrownBy>>
          ELSE imageCatch
    /\ UNCHANGED <<SECRET, req, anyPromise, settleOrder, swapRequests, normVars>>

\* routes.ts:265-272: extractTextFromImage has settled.
extractTextSettles ==
    /\ pc = "extractTextFromImage"
    /\ \/ \E imageText \in ImageTexts :
             /\ scanAndResolve(combinedText \o <<" ">> \o normalizeText(imageText))
             /\ UNCHANGED <<imageError, thrownBy, calls>>
       \/ imageCatch
    /\ UNCHANGED <<SECRET, req, anyPromise, settleOrder, swapRequests, normVars>>

\* Promise.race in the place of Promise.any: the first promise to settle
\* decides, fulfilled or rejected.
promiseAny_race(any, promises, i) ==
    IF any.state # "pending" THEN any
    ELSE [state |-> promises[i].state, value |-> promises[i].value]

\* Promise.any over tokenInfoPromises, after promise i has settled: the
\* first fulfilment fulfils it, the last rejection rejects it, and once
\* settled it stays as it is.
promiseAny(any, promises, i) ==
    IF any.state # "pending" THEN any
    ELSE IF promises[i].state = "fulfilled"
         THEN [state |-> "fulfilled", value |-> promises[i].value]
    ELSE IF \A k \in 1..Len(promises) : promises[k].state = "rejected"
         THEN [state |-> "rejected", value |-> Null]
    ELSE any

\* routes.ts:298-313: the promise of address i once getTokenInfo returned.
lookupResult(tokenInfo) ==
    IF tokenInfo # Null
    THEN [state |-> "fulfilled", value |-> tokenInfo]    \* resolve(tokenInfo)
    ELSE [state |-> "rejected", value |-> Null]          \* reject(new Error(...))

\* getMintInfo of lookup i answers; the lookup may outlive the request.
lookupSettles(i) ==
    /\ i \in 1..Len(tokenInfoPromises)
    /\ tokenInfoPromises[i].state = "pending"
    /\ \E outcome \in MintOutcomes :
          tokenInfoPromises' =
              [tokenInfoPromises EXCEPT
                  ![i] = lookupResult(getTokenInfo(validAddresses[i], outcome))]
    /\ anyPromise' = promiseAny(anyPromise, tokenInfoPromises', i)
    /\ settleOrder' = Append(settleOrder, i)
    /\ UNCHANGED <<SECRET, req, pc, combinedText, matches, validAddresses,
                   swapRequests, calls, thrownBy, imageError, response, normVars>>

\* routes.ts:317-335: Promise.any has settled; on a rejection the await
\* throws the AggregateError, else getPumpTx is called and posts its request.
afterPromiseAny ==
    /\ pc = "Promise.any"
    /\ anyPromise.state # "pending"
    /\ IF anyPromise.state = "rejected"
       THEN /\ catch("Promise.any", "All promises were rejected")
            /\ UNCHANGED <<swapRequests, calls>>
       ELSE LET tokenInfo == anyPromise.value
                amount == getAmount(tokenInfo.address, req.user)
            IN  /\ swapRequests' = Append(swapRequests,
                       pumpRequestBody(tokenInfo.address, amount, priorityLevelOf(req.user)))
                /\ calls' = [calls EXCEPT !["getPumpTx"] = @ + 1]
                /\ pc' = "getPumpTx"
                /\ UNCHANGED <<thrownBy, response>>
    /\ UNCHANGED <<SECRET, req, combinedText, matches, validAddresses,
                   tokenInfoPromises, anyPromise, settleOrder, imageError, normVars>>

\* getPumpTx posted again when it failed, up to three times.
getPumpTxSettles_retry ==
    /\ pc = "getPumpTx"
    /\ \/ /\ calls["getPumpTx"] < 3
          /\ swapRequests' = Append(swapRequests, swapRequests[1])
          /\ calls' = [calls EXCEPT !["getPumpTx"] = @ + 1]
          /\ UNCHANGED <<pc, thrownBy, response>>
       \/ /\ calls' = [calls EXCEPT !["sign"] = @ + 1,
                                    !["getLatestBlockhash"] = @ + 1]
          /\ pc' = "getLatestBlockhash"
          /\ UNCHANGED <<thrownBy, response, swapRequests>>
    /\ UNCHANGED <<SECRET, req, combinedText, matches, validAddresses,
                   tokenInfoPromises, anyPromise, settleOrder,
                   imageError, normVars>>

\* routes.ts:331-343: getPumpTx has settled; then transaction.sign, then the
\* call of getLatestBlockhash.
getPumpTxSettles ==
    /\ pc = "getPumpTx"
    /\ \/ /\ catch("getPumpTx", "getPumpTx failed")
          /\ UNCHANGED calls
       \/ /\ catch("sign", "sign failed")
          /\ calls' = [calls EXCEPT !["sign"] = @ + 1]
       \/ /\ calls' = [calls EXCEPT !["sign"] = @ + 1,
                                    !["getLatestBlockhash"] = @ + 1]
          /\ pc' = "getLatestBlockhash"
          /\ UNCHANGED <<thrownBy, response>>
    /\ UNCHANGED <<SECRET, req, combinedText, matches, validAddresses,
                   tokenInfoPromises, anyPromise, settleOrder, swapRequests,
                   imageError, normVars>>

\* routes.ts:343-351: getLatestBlockhash has settled; then serialize and the
\* call of sendRawTransaction.
getLatestBlockhashSettles ==
    /\ pc = "getLatestBlockhash"
    /\ \/ /\ catch("getLatestBlockhash", "getLatestBlockhash failed")
          /\ UNCHANGED calls
       \/ /\ calls' = [calls EXCEPT !["sendRawTransaction"] = @ + 1]
          /\ pc' = "sendRawTransaction"
          /\ UNCHANGED <<thrownBy, response>>
    /\ UNCHANGED <<SECRET, req, combinedText, matches, validAddresses,
                   tokenInfoPromises, anyPromise, settleOrder, swapRequests,
                   imageError, normVars>>

\* routes.ts:348-357: sendRawTransaction has settled; then the call of
\* confirmTransaction.
sendRawTransactionSettles ==
    /\ pc = "sendRawTransaction"
    /\ \/ /\ catch("sendRawTransaction", "sendRawTransaction failed")
          /\ UNCHANGED calls
       \/ /\ calls' = [calls EXCEPT !["confirmTransaction"] = @ + 1]
          /\ pc' = "confirmTransaction"
          /\ UNCHANGED <<thrownBy, response>>
    /\ UNCHANGED <<SECRET, req, combinedText, matches, validAddresses,
                   tokenInfoPromises, anyPromise, settleOrder, swapRequests,
                   imageError, normVars>>

\* routes.ts:353-374: confirmTransaction has settled; then the response.
confirmTransactionSettles ==
    /\ pc = "confirmTransaction"
    /\ \/ catch("confirmTransaction", "confirmTransaction failed")
       \/ /\ response' = Processed(req.image)
          /\ pc' = "done"
          /\ UNCHANGED thrownBy
    /\ UNCHANGED <<SECRET, req, combinedText, matches, validAddresses,
                   tokenInfoPromises, anyPromise, settleOrder, swapRequests,
                   calls, imageError, normVars>>

Next ==
    \/ verifyHookdeckSignature
    \/ handlerStart
    \/ downloadImageSettles
    \/ extractTextSettles
    \/ \E i \in 1..Len(tokenInfoPromises) : lookupSettles(i)
    \/ afterPromiseAny
    \/ getPumpTxSettles
    \/ getLatestBlockhashSettles
    \/ sendRawTransactionSettles
    \/ confirmTransactionSettles

Spec == Init /\ [][Next]_vars

(***************************************************************************)
(* The scan on its own: an address with arbitrary neighbours                *)
(***************************************************************************)

\* Longest run of characters put before and after the address.
MaxPad == 2

\* A Base58 character and a character outside the class.
PadChars == {"x", " "}

Pads == UNION {[1..n -> PadChars] : n \in 0..MaxPad}

ScanAddresses == {SystemProgram, WrappedSol, MintA}

ScanTexts == {pre \o a \o post : pre \in Pads, a \in ScanAddresses, post \in Pads}

InitScan ==
    /\ SECRET = ""
    /\ req = CHOOSE r \in Requests : TRUE
    /\ pc = "scan"
    /\ combinedText \in ScanTexts
    /\ matches = <<>>
    /\ validAddresses = <<>>
    /\ tokenInfoPromises = <<>>
    /\ anyPromise = Pending
    /\ settleOrder = <<>>
    /\ swapRequests = <<>>
    /\ calls = [st \in Steps |-> 0]
    /\ thrownBy = "none"
    /\ imageError = FALSE
    /\ response = NoResponse
    /\ normIdle

\* The loop of routes.ts:277-285 over combinedText.
scanLoop ==
    /\ pc = "scan"
    /\ matches' = scanMatches(combinedText)
    /\ pc' = "scanned"
    /\ UNCHANGED <<SECRET, req, combinedText, validAddresses, tokenInfoPromises,
                   anyPromise, settleOrder, swapRequests, calls, thrownBy,
                   imageError, response, normVars>>

NextScan == scanLoop

SpecScan == InitScan /\ [][NextScan]_vars

(***************************************************************************)
(* normalizeText on its own, applied twice                                 *)
(***************************************************************************)

\* Longest input string.
MaxNormLen == 3

\* Latin A, Cyrillic A (in the homoglyph table), the combining ring, the
\* precomposed A with ring, fullwidth A, and a letter nothing changes.
NormChars == {"A", "U+0410", "U+030A", "U+00C5", "U+FF21", "x"}

NormInputs == UNION {[1..n -> NormChars] : n \in 0..MaxNormLen}

InitNorm ==
    /\ SECRET = ""
    /\ req = CHOOSE r \in Requests : TRUE
    /\ pc = "normalize"
    /\ pipelineIdle
    /\ normInput \in NormInputs
    /\ normOnce = <<>>
    /\ normTwice = <<>>

pipelineVars ==
    <<SECRET, req, combinedText, matches, validAddresses, tokenInfoPromises,
      anyPromise, settleOrder, swapRequests, calls, thrownBy, imageError,
      response>>

normalizeOnce ==
    /\ pc = "normalize"
    /\ normOnce' = normalizeText(normInput)
    /\ pc' = "renormalize"
    /\ UNCHANGED <<pipelineVars, normInput, normTwice>>

normalizeAgain ==
    /\ pc = "renormalize"
    /\ normTwice' = normalizeText(normOnce)
    /\ pc' = "normalized"
    /\ UNCHANGED <<pipelineVars, normInput, normOnce>>

NextNorm == normalizeOnce \/ normalizeAgain

SpecNorm == InitNorm /\ [][NextNorm]_vars

(***************************************************************************)
(* Properties                                                              *)
(***************************************************************************)

Range(seq) == {seq[k] : k \in 1..Len(seq)}

allRejected ==
    \A i \in 1..Len(tokenInfoPromises) : tokenInfoPromises[i].state = "rejected"

\* C1: when at least one address was validated and every metadata lookup
\* failed or returned null, the handler answers "success" / "No valid token
\* addresses found" and no swap transaction is requested.
C1_TotalFailureIsBenign ==
    (validAddresses # <<>> /\ allRejected /\ response # NoResponse)
        => (response = NoValidAddresses /\ swapRequests = <<>>)

pipelineNotInvoked ==
    /\ pc \in {"verify", "done"}
    /\ combinedText = <<>>
    /\ matches = <<>>
    /\ validAddresses = <<>>
    /\ tokenInfoPromises = <<>>
    /\ swapRequests = <<>>
    /\ calls = [st \in Steps |-> 0]
    /\ response \in {NoResponse, Unauthorized}

\* C2 (as claimed): a request whose signature is not valid never reaches the
\* pipeline, in every configuration, also when no signing secret is set.
C2_InvalidSignatureRejectedAlways ==
    ~req.validSignature => pipelineNotInvoked

\* C2 (amended): when a signing secret is set, a request whose signature is
\* not valid never reaches the pipeline: it is answered 401 and no scan,
\* lookup or swap request happens for it.
C2_InvalidSignatureRejectedWithSecret ==
    (SECRET # "" /\ ~req.validSignature) => pipelineNotInvoked

C2_Witness ==
    /\ SECRET # ""
    /\ ~req.validSignature
    /\ pc = "done"
    /\ response = Unauthorized

\* C3: a candidate whose lower-case form is on the block list is never in
\* validAddresses, valid or not; lookups are started for validAddresses
\* only, and a swap is requested only for an address among them.
C3_BlockedNeverResolved ==
    /\ \A i \in 1..Len(validAddresses) :
          toLowerCase(validAddresses[i]) \notin BLOCKED_TOKENS
    /\ Len(tokenInfoPromises) \in {0, Len(validAddresses)}
    /\ \A i \in 1..Len(tokenInfoPromises) :
          tokenInfoPromises[i].state = "fulfilled"
              => tokenInfoPromises[i].value.address = validAddresses[i]
    /\ \A j \in 1..Len(swapRequests) :
          /\ swapRequests[j].mint \in Range(validAddresses)
          /\ toLowerCase(swapRequests[j].mint) \notin BLOCKED_TOKENS

\* A blocked valid address and a blocked invalid one were both scanned, and
\* a swap was requested for another address.
C3_Witness ==
    /\ swapRequests # <<>>
    /\ Blocked1 \in Range(matches)
    /\ Blocked2Variant \in Range(matches)
    /\ Blocked1 \notin Range(validAddresses)
    /\ Blocked2Variant \notin Range(validAddresses)

\* C4: every response with status "success" carries a source equal to
\* "text only" or "text and image".
C4_SuccessCarriesSource ==
    (response.code = 200 /\ response.body.status = "success")
        => /\ "source" \in DOMAIN response.body
           /\ response.body.source \in {"text only", "text and image"}

bodyText == normalizeText(req.full_text \o <<" ">> \o stripWhitespace(req.text))

\* C5: when the image download or the OCR throws, the handler goes on with
\* the text-only combinedText, scan and validation are those of the body
\* text, and the exception never reaches the outer catch: an error response
\* then comes from a later step.
C5_ImageFailureFallsBackToText ==
    /\ thrownBy \notin {"downloadImage", "extractTextFromImage"}
    /\ imageError =>
          /\ pc \notin {"downloadImage", "extractTextFromImage"}
          /\ combinedText = bodyText
          /\ (settleOrder = <<>> /\ swapRequests = <<>>)
                => /\ matches = scanMatches(bodyText)
                   /\ validAddresses = filterValid(scanMatches(bodyText))
          /\ response.code = 500
                => thrownBy \in {"Promise.any", "getPumpTx", "sign",
                                 "getLatestBlockhash", "sendRawTransaction",
                                 "confirmTransaction"}

C5_Witness ==
    /\ imageError
    /\ swapRequests # <<>>
    /\ response = Processed(req.image)

\* C6: one request causes at most one call of each dispatch step (one swap
\* request, one submission), one lookup per validated address, and a step
\* that threw ends the request with the generic error response.
C6_AtMostOneAttempt ==
    /\ \A st \in Steps : calls[st] <= 1
    /\ Len(swapRequests) <= 1
    /\ Len(swapRequests) = calls["getPumpTx"]
    /\ Len(tokenInfoPromises) \in {0, Len(validAddresses)}
    /\ thrownBy # "none" =>
          /\ pc = "done"
          /\ response.code = 500
          /\ response.body.status = "error"
          /\ response.body.message = "Error processing webhook"

C6_Witness ==
    /\ thrownBy = "sendRawTransaction"
    /\ calls["sendRawTransaction"] = 1
    /\ calls["confirmTransaction"] = 0
    /\ Len(swapRequests) = 1
    /\ response.code = 500

\* Positions of settleOrder whose lookup fulfilled.
fulfilledAt ==
    {k \in 1..Len(settleOrder) : tokenInfoPromises[settleOrder[k]].state = "fulfilled"}

firstFulfilled == settleOrder[CHOOSE k \in fulfilledAt : \A m \in fulfilledAt : k <= m]

\* C7: under every order of completion, as soon as one lookup has yielded a
\* TokenInfo the race is decided with the TokenInfo of the first lookup that
\* did, whatever lookups failed before and whatever lookups are in flight;
\* it fails only when every lookup has failed; the swap is requested for the
\* winner's address.
C7_FirstSuccessWins ==
    /\ fulfilledAt # {} =>
          /\ anyPromise.state = "fulfilled"
          /\ anyPromise.value = tokenInfoPromises[firstFulfilled].value
          /\ anyPromise.value.address = validAddresses[firstFulfilled]
    /\ fulfilledAt = {} =>
          /\ anyPromise.state # "fulfilled"
          /\ anyPromise.state = "rejected"
                <=> (tokenInfoPromises # <<>> /\ allRejected)
    /\ \A j \in 1..Len(swapRequests) :
          /\ anyPromise.state = "fulfilled"
          /\ swapRequests[j].mint = anyPromise.value.address

\* Three lookups: the first failed, the second succeeded, the third is
\* still in flight, and the swap was requested for the second's address.
C7_Witness ==
    /\ Len(tokenInfoPromises) = 3
    /\ settleOrder = <<1, 2>>
    /\ tokenInfoPromises[1].state = "rejected"
    /\ tokenInfoPromises[2].state = "fulfilled"
    /\ tokenInfoPromises[3].state = "pending"
    /\ Len(swapRequests) = 1
    /\ swapRequests[1].mint = validAddresses[2]

\* C8: every valid address of 32 to 44 Base58 characters that occurs in the
\* text at any offset, whatever precedes or follows it, is in matches.
C8_ScannerComplete ==
    pc = "scanned" =>
        \A i \in 1..Len(combinedText) :
            \A n \in MinAddressLen..MaxAddressLen :
                (/\ i + n - 1 <= Len(combinedText)
                 /\ isValidSolanaAddress(SubSeq(combinedText, i, i + n - 1)))
                    => SubSeq(combinedText, i, i + n - 1) \in Range(matches)

\* C9: every TokenInfo getTokenInfo returns, so every winner of the race and
\* every address a swap is requested for, is of a mint reported initialized
\* and with non-zero decimals.
C9_TokenInfoInitialized ==
    /\ \A i \in 1..Len(tokenInfoPromises) :
          tokenInfoPromises[i].state = "fulfilled"
              => /\ tokenInfoPromises[i].value.isInitialized
                 /\ tokenInfoPromises[i].value.decimals # 0
    /\ anyPromise.state = "fulfilled"
          => /\ anyPromise.value.isInitialized
             /\ anyPromise.value.decimals # 0

\* C10: normalizeText(normalizeText(t)) = normalizeText(t) for every t.
C10_NormalizeIdempotent ==
    pc = "normalized" => normTwice = normOnce

====
